---- MODULE Spec2Model ----
(***************************************************************************)
(* Model of spotify_downloader.py: the playlist orchestrator               *)
(* (download_playlist), the per-track pipeline (download_track,            *)
(* search_youtube), the progress sink (_send_progress) and the shared      *)
(* cancellation flag (cancel_download / reset_cancel).  Spec is a run of    *)
(* download_playlist.  The functions that are called on their own have a   *)
(* specification each, with the arguments drawn from bounded sets:         *)
(* SpecIdentify (file identification of download_track), SpecParse         *)
(* (parse_csv) and SpecM3u (generate_m3u).  SpecCancel is Spec with the    *)
(* history of the cancel requests.  SpecSingle is the host driving the     *)
(* tracks one by one through download_single_track.                        *)
(*                                                                         *)
(* Strings are sequences of one-character strings, so that lower(),        *)
(* strip(), re.sub() and the substring tests are computed, not assumed.    *)
(***************************************************************************)
EXTENDS Integers, Sequences, FiniteSets, TLC

VARIABLES
    cancel_requested,    \* _cancel_requested (line 15)
    progress_callback,   \* _progress_callback is set (line 16)
    pc,                  \* position of the thread running download_playlist
    skip_instrumentals,  \* argument of download_playlist
    tracks,              \* tracks = parse_csv(csv_content) (line 509)
    i,                   \* loop variable of "for i, track in enumerate(tracks)"
    result,              \* the result dict (lines 499-506)
    events,              \* the _send_progress calls of the download thread, in order
    raised,              \* origin of the exception that left download_playlist
    hooks,               \* progress_hook calls of the transfer in flight
    calls,               \* history: per track, calls of download_track/search/download
    log,                 \* history: per finished loop iteration, its outcome
    loop_cancelled,      \* history: value of i at which the loop hit "break"
    csv_rows,            \* history: number of data rows of csv_content
    input,               \* the arguments of a function that is called on its own
    output,              \* what that call wrote, emitted and returned
    cancel_in_run        \* history: cancel_download was called during the run,
                         \* before the loop's check of the last track
                         \* (SpecSingle: since the previous call returned)

vars == <<cancel_requested, progress_callback, pc, skip_instrumentals, tracks, i,
          result, events, raised, hooks, calls, log, loop_cancelled, csv_rows,
          input, output, cancel_in_run>>

(***************************************************************************)
(* Bounds of the model.                                                    *)
(***************************************************************************)
MaxRows == 2
MaxHooks == 1

(***************************************************************************)
(* Strings.                                                                *)
(***************************************************************************)
UpperCase == <<"A","B","C","D","E","F","G","H","I","J","K","L","M",
               "N","O","P","Q","R","S","T","U","V","W","X","Y","Z">>
LowerCase == <<"a","b","c","d","e","f","g","h","i","j","k","l","m",
               "n","o","p","q","r","s","t","u","v","w","x","y","z">>

\* str.lower() on one character
LowerChar(c) ==
    IF \E k \in 1..Len(UpperCase) : UpperCase[k] = c
    THEN LowerCase[CHOOSE k \in 1..Len(UpperCase) : UpperCase[k] = c]
    ELSE c

\* str.lower()
Lower(s) == [k \in 1..Len(s) |-> LowerChar(s[k])]

\* "sub in s"
Contains(s, sub) ==
    \E k \in 0..(Len(s) - Len(sub)) : SubSeq(s, k + 1, k + Len(sub)) = sub

\* s.endswith(suffix)
EndsWith(s, suffix) ==
    /\ Len(suffix) <= Len(s)
    /\ SubSeq(s, Len(s) - Len(suffix) + 1, Len(s)) = suffix

\* s.startswith(prefix)
StartsWith(s, prefix) ==
    /\ Len(prefix) <= Len(s)
    /\ SubSeq(s, 1, Len(prefix)) = prefix

RECURSIVE LStrip(_, _)
LStrip(s, chars) ==
    IF s # <<>> /\ Head(s) \in chars THEN LStrip(Tail(s), chars) ELSE s

RECURSIVE RStrip(_, _)
RStrip(s, chars) ==
    IF s # <<>> /\ s[Len(s)] \in chars THEN RStrip(SubSeq(s, 1, Len(s) - 1), chars) ELSE s

\* s.strip(chars)
Strip(s, chars) == RStrip(LStrip(s, chars), chars)

Whitespace == {" "}

RECURSIVE RemoveChars(_, _)
\* re.sub('[...]', '', s)
RemoveChars(s, chars) ==
    IF s = <<>> THEN <<>>
    ELSE IF Head(s) \in chars THEN RemoveChars(Tail(s), chars)
    ELSE <<Head(s)>> \o RemoveChars(Tail(s), chars)

InvalidChars == {"<", ">", ":", "\"", "/", "\\", "|", "?", "*"}

NameLimit == 200

\* The body of sanitize_filename (lines 126-131) with the length limit limit
sanitize_within(name, limit) ==
    LET sanitized == Strip(RemoveChars(name, InvalidChars), {".", " "})
    IN IF Len(sanitized) > limit THEN SubSeq(sanitized, 1, limit) ELSE sanitized

sanitize_filename(name) == sanitize_within(name, NameLimit)

(***************************************************************************)
(* Inputs: the titles and rows a CSV is drawn from.                        *)
(***************************************************************************)
TitleSong == <<"K","a","r","a","o","k","?">>
TitleKaraoke == <<"M","y"," ","K","a","R","a","O","k","E">>
TitleInstrumental == <<"I","N","S","T","R","U","M","E","N","T","A","L"," ","x">>
ArtistA == <<"A","b">>

Titles == {TitleSong, TitleKaraoke, TitleInstrumental}

\* The row of values the reader yields for a line of a CSV written by
\* Exportify: track, artist, album, untrimmed.
Rows ==
    {<<t, ArtistA, <<>>>> : t \in Titles}
      \cup {<<<<" ">>, ArtistA, <<>>>>, <<TitleSong, <<>>, <<>>>>}

\* The header row of a CSV written by Exportify
ExportifyHeader ==
    <<<<"T","r","a","c","k"," ","N","a","m","e">>,
      <<"A","r","t","i","s","t"," ","N","a","m","e","(","s",")">>,
      <<"A","l","b","u","m"," ","N","a","m","e">>>>

RECURSIVE SeqsUpTo(_, _)
SeqsUpTo(S, n) ==
    IF n = 0 THEN {<<>>}
    ELSE LET shorter == SeqsUpTo(S, n - 1)
         IN shorter \cup {Append(s, x) : s \in {t \in shorter : Len(t) = n - 1}, x \in S}

\* A CSV text as csv.DictReader reads it: the fieldnames of its header row,
\* the values of each data row, and the row at which the reader raises (0:
\* never; 1: nothing of the text can be parsed).
CsvInputs ==
    {[fieldnames |-> ExportifyHeader, rows |-> r, error_at |-> e] :
        r \in SeqsUpTo(Rows, MaxRows), e \in 0..MaxRows}

\* header_map (lines 66-94): the keys mapped to track_name, artist_name and
\* album_name
TrackKeys ==
    {<<"t","r","a","c","k"," ","n","a","m","e">>,
     <<"t","r","a","c","k","_","n","a","m","e">>,
     <<"t","r","a","c","k","n","a","m","e">>,
     <<"s","o","n","g"," ","n","a","m","e">>,
     <<"s","o","n","g","_","n","a","m","e">>,
     <<"s","o","n","g","n","a","m","e">>,
     <<"t","i","t","l","e">>,
     <<"n","a","m","e">>,
     <<"t","r","a","c","k">>,
     <<"s","o","n","g">>}
ArtistKeys ==
    {<<"a","r","t","i","s","t"," ","n","a","m","e">>,
     <<"a","r","t","i","s","t","_","n","a","m","e">>,
     <<"a","r","t","i","s","t","n","a","m","e">>,
     <<"a","r","t","i","s","t"," ","n","a","m","e","(","s",")">>,
     <<"a","r","t","i","s","t"," ","n","a","m","e","s">>,
     <<"a","r","t","i","s","t">>,
     <<"a","r","t","i","s","t","s">>,
     <<"p","e","r","f","o","r","m","e","r">>}
AlbumKeys ==
    {<<"a","l","b","u","m"," ","n","a","m","e">>,
     <<"a","l","b","u","m","_","n","a","m","e">>,
     <<"a","l","b","u","m","n","a","m","e">>,
     <<"a","l","b","u","m">>}

header_map ==
    [k \in TrackKeys |-> "track_name"] @@ [k \in ArtistKeys |-> "artist_name"]
        @@ [k \in AlbumKeys |-> "album_name"]

\* track[key] = value
Put(track, key, value) ==
    [x \in DOMAIN track \cup {key} |-> IF x = key THEN value ELSE track[x]]

\* track.get(key): None and '' are <<>>
Get(track, key) == IF key \in DOMAIN track THEN track[key] ELSE <<>>

\* Lines 97-103 from the k-th fieldname on.  The reader's row is
\* dict(zip(fieldnames, values)): a fieldname that occurs twice keeps its
\* first place and its last value, a fieldname beyond the values has the
\* value None and is passed over, and values beyond the fieldnames are under
\* the key None and are passed over.
RECURSIVE MapRow(_, _, _, _)
MapRow(fieldnames, values, k, track) ==
    IF k > Len(fieldnames) THEN track
    ELSE LET key == fieldnames[k]
             first == \A j \in 1..(k - 1) : fieldnames[j] # key
             last == CHOOSE j \in k..Len(fieldnames) :
                        /\ fieldnames[j] = key
                        /\ \A m \in (j + 1)..Len(fieldnames) : fieldnames[m] # key
             normalized_key == Strip(Lower(key), Whitespace)
         IN MapRow(fieldnames, values, k + 1,
                   IF first /\ last <= Len(values) /\ normalized_key \in DOMAIN header_map
                   THEN Put(track, header_map[normalized_key],
                            Strip(values[last], Whitespace))
                   ELSE track)

RECURSIVE ParseRows(_, _, _, _)
ParseRows(fieldnames, rows, k, error_at) ==
    IF k > Len(rows) \/ k = error_at THEN <<>>
    ELSE LET track == MapRow(fieldnames, rows[k], 1, <<>>)
         IN (IF Get(track, "track_name") # <<>> /\ Get(track, "artist_name") # <<>>
             THEN <<track>> ELSE <<>>) \o ParseRows(fieldnames, rows, k + 1, error_at)

\* parse_csv: the rows with a track and an artist, in order; an exception of
\* the reader ends the loop and the tracks collected so far are returned.
parse_csv(csv) == ParseRows(csv.fieldnames, csv.rows, 1, csv.error_at)

(***************************************************************************)
(* File identification of download_track (lines 255-336).  A path is the   *)
(* character sequence after the output directory; None and '' are <<>>.   *)
(***************************************************************************)
NoPath == <<>>
NoInfo == [none |-> TRUE]

ExtM4a == <<".","m","4","a">>
ExtMp3 == <<".","m","p","3">>
ExtWebm == <<".","w","e","b","m">>
ExtOpus == <<".","o","p","u","s">>
ExtOgg == <<".","o","g","g">>
ExtMp4 == <<".","m","p","4">>
ExtAac == <<".","a","a","c">>

\* audio_exts (line 308)
audio_exts == {ExtM4a, ExtMp3, ExtWebm, ExtOpus, ExtOgg, ExtMp4, ExtAac}
\* the extensions probed by "Method 4", in order (line 320)
direct_exts == <<ExtM4a, ExtWebm, ExtOpus, ExtMp3, ExtOgg, ExtMp4>>

\* output_template (lines 205-206), without the directory
output_template(track_name, artist_name) ==
    sanitize_filename(artist_name \o <<" ", "-", " ">> \o track_name)

\* Method 2 (lines 280-298): the path the info dict reports
InfoPath(info, template) ==
    IF info.filename # NoPath THEN info.filename
    ELSE IF info.requested # NoPath THEN info.requested
    ELSE template \o <<".">> \o info.ext

\* Method 4 (lines 318-325): the first probed extension that exists
RECURSIVE DirectProbe(_, _, _, _)
DirectProbe(template, after, k, dflt) ==
    IF k > Len(direct_exts) THEN dflt
    ELSE IF (template \o direct_exts[k]) \in after THEN template \o direct_exts[k]
    ELSE DirectProbe(template, after, k + 1, dflt)

\* Methods 2-4 and the final verification, from the result d1 of Method 1.
\* glob.glob() and list(set) give no order: every first element is possible.
IdentifyFrom(d1, template, after, info) ==
    LET d2 == IF d1 = NoPath /\ info # NoInfo THEN InfoPath(info, template) ELSE d1
        matches == {p \in after : StartsWith(p, template)}
        audio_matches == {m \in matches : \E ext \in audio_exts : EndsWith(m, ext)}
        d3s == IF d2 = NoPath \/ d2 \notin after
               THEN (IF audio_matches # {} THEN audio_matches
                     ELSE IF matches # {} THEN matches
                     ELSE {d2})
               ELSE {d2}
    IN {LET d4 == IF d3 = NoPath \/ d3 \notin after
                  THEN DirectProbe(template, after, 1, d3) ELSE d3
        IN IF d4 = NoPath \/ d4 \notin after THEN NoPath ELSE d4 : d3 \in d3s}

\* IdentifyFile without Method 1: the new files are not looked at.
IdentifyFileNoDiff(template, before, after, info) ==
    IdentifyFrom(NoPath, template, after, info)

\* The possible values of output_path (NoPath: "output file not found")
IdentifyFile(template, before, after, info) ==
    LET new_files == after \ before
    IN IF new_files # {}
       THEN UNION {IdentifyFrom(d1, template, after, info) : d1 \in new_files}
       ELSE IdentifyFrom(NoPath, template, after, info)

\* What one call of the download capability can leave behind: it raises
\* (with or without "cancelled" in the message), or returns info and a
\* directory.
DownloadOutcomes(t) ==
    {[raises |-> TRUE, cancelled_msg |-> m, before |-> {}, after |-> {}, info |-> NoInfo]
        : m \in BOOLEAN}
    \cup
    {[raises |-> FALSE, cancelled_msg |-> FALSE, before |-> {}, after |-> {t \o ExtM4a},
      info |-> [filename |-> t \o ExtM4a, requested |-> NoPath, ext |-> <<"m","4","a">>]],
     [raises |-> FALSE, cancelled_msg |-> FALSE, before |-> {t \o ExtM4a},
      after |-> {t \o ExtM4a},
      info |-> [filename |-> NoPath, requested |-> NoPath, ext |-> <<"m","4","a">>]],
     [raises |-> FALSE, cancelled_msg |-> FALSE, before |-> {}, after |-> {t \o ExtM4a},
      info |-> NoInfo],
     [raises |-> FALSE, cancelled_msg |-> FALSE, before |-> {}, after |-> {},
      info |-> [filename |-> t \o ExtM4a, requested |-> NoPath, ext |-> <<"m","4","a">>]]}

(***************************************************************************)
(* The progress sink and the result dict.                                  *)
(***************************************************************************)
\* A _send_progress call: its event type, the function that makes the call
\* and the "index" field of the payload (0 when the payload has none).
Ev(type, by, index) == [type |-> type, by |-> by, index |-> index]

\* The payload of playlist_complete (lines 569-573)
EvComplete(res) ==
    [type |-> "playlist_complete", by |-> "download_playlist", index |-> 0,
     total |-> res.total, downloaded |-> res.downloaded, failed |-> res.failed]

\* The payload of the loop's cancelled event (lines 527-530)
EvCancelled(res, remaining) ==
    [type |-> "cancelled", by |-> "download_playlist", index |-> 0,
     downloaded |-> res.downloaded, remaining |-> remaining]

\* _send_progress (lines 27-32): the callback is called when one is set, and
\* nothing guards the call: what the callback raises, the caller gets.  "ok":
\* it returns; "raises": it raises (an exception whose message does not
\* contain "cancelled").
send_progress_outcomes ==
    IF progress_callback THEN {"ok", "raises"} ELSE {"ok"}

\* The result dict on entry (lines 499-506)
ZeroResult ==
    [success |-> FALSE, total |-> 0, downloaded |-> 0, failed |-> 0,
     failed_tracks |-> <<>>, output_files |-> <<>>]

\* Account with output_files built in reverse: the new path is put first.
AccountPrepend(res, track, output_path) ==
    IF output_path # NoPath
    THEN [res EXCEPT !.downloaded = @ + 1, !.output_files = <<output_path>> \o @]
    ELSE [res EXCEPT !.failed = @ + 1,
                     !.failed_tracks = Append(@, [track |-> track.track_name,
                                                  artist |-> track.artist_name])]

\* Account that counts a failure without listing the track.
AccountCountOnly(res, track, output_path) ==
    IF output_path # NoPath
    THEN [res EXCEPT !.downloaded = @ + 1, !.output_files = Append(@, output_path)]
    ELSE [res EXCEPT !.failed = @ + 1]

\* Lines 557-565: what the loop does with the return value of download_track
Account(res, track, output_path) ==
    IF output_path # NoPath
    THEN [res EXCEPT !.downloaded = @ + 1, !.output_files = Append(@, output_path)]
    ELSE [res EXCEPT !.failed = @ + 1,
                     !.failed_tracks = Append(@, [track |-> track.track_name,
                                                  artist |-> track.artist_name])]

\* IsInstrumental without lower(): the test is case-sensitive.
IsInstrumentalCaseSensitive(track_name) ==
    \/ Contains(track_name, <<"i","n","s","t","r","u","m","e","n","t","a","l">>)
    \/ Contains(track_name, <<"k","a","r","a","o","k","e">>)

\* Lines 538-540: the skip test on the track name
IsInstrumental(track_name) ==
    LET lower_name == Lower(track_name)
    IN \/ Contains(lower_name, <<"i","n","s","t","r","u","m","e","n","t","a","l">>)
       \/ Contains(lower_name, <<"k","a","r","a","o","k","e">>)

N == Len(tracks)

\* No function is called on its own: the program is at download_playlist
NoCall == [fn |-> "none"]

\* The module's globals as loaded (lines 14-18), and no run of
\* download_playlist yet
Idle ==
    /\ cancel_requested = FALSE
    /\ progress_callback = FALSE
    /\ pc = "idle"
    /\ skip_instrumentals = FALSE
    /\ tracks = <<>>
    /\ i = 0
    /\ result = ZeroResult
    /\ events = <<>>
    /\ raised = "none"
    /\ hooks = 0
    /\ calls = <<>>
    /\ log = <<>>
    /\ loop_cancelled = -1
    /\ csv_rows = 0
    /\ cancel_in_run = FALSE

Init ==
    /\ Idle
    /\ input = NoCall
    /\ output = NoCall

(***************************************************************************)
(* The host: set_progress_callback and cancel_download.                    *)
(***************************************************************************)
\* set_progress_callback (lines 21-24), called by the host before it starts
\* a download
SetProgressCallback ==
    /\ pc = "idle"
    /\ ~progress_callback
    /\ progress_callback' = TRUE
    /\ UNCHANGED <<cancel_requested, pc, skip_instrumentals, tracks, i, result, events,
                   raised, hooks, calls, log, loop_cancelled, csv_rows,
                   input, output, cancel_in_run>>

\* cancel_download (lines 35-39), called from another thread at any time.
\* Its _send_progress("cancelled") call is made in the caller's thread, after
\* the flag is set, and what the callback raises there goes to that caller:
\* it is not among the events of the download thread.
CancelDownload ==
    /\ cancel_requested' = TRUE
    /\ UNCHANGED <<progress_callback, pc, skip_instrumentals, tracks, i, result, events,
                   raised, hooks, calls, log, loop_cancelled, csv_rows,
                   input, output, cancel_in_run>>

(***************************************************************************)
(* download_playlist (lines 479-575).                                      *)
(***************************************************************************)
\* The exception `origin` leaves download_playlist after the events evs.
Raise(origin, evs) ==
    /\ pc' = "raised"
    /\ raised' = origin
    /\ events' = evs

\* The host calls download_playlist(csv_content, output_dir, skip)
Call ==
    /\ pc = "idle"
    /\ \E skip \in BOOLEAN : skip_instrumentals' = skip
    /\ pc' = "entry"
    /\ UNCHANGED <<cancel_requested, progress_callback, tracks, i, result, events,
                   raised, hooks, calls, log, loop_cancelled, csv_rows,
                   input, output, cancel_in_run>>

\* Lines 497-506: reset_cancel() and the fresh result dict
ResetCancel ==
    /\ pc = "entry"
    /\ cancel_requested' = FALSE
    /\ result' = ZeroResult
    /\ pc' = "parse"
    /\ UNCHANGED <<progress_callback, skip_instrumentals, tracks, i, events,
                   raised, hooks, calls, log, loop_cancelled, csv_rows,
                   input, output, cancel_in_run>>

\* NoTracks as "tracks is None": parse_csv returns a list, so never true.
NoTracksIsNone(parsed) == FALSE

\* Line 510: "if not tracks"
NoTracks(parsed) == parsed = <<>>

\* Lines 509-519: parse the CSV; no track: "error" and return; else
\* "playlist_start"
ParseCsv ==
    /\ pc = "parse"
    /\ \E csv \in CsvInputs, cb \in send_progress_outcomes :
         LET parsed == parse_csv(csv)
             ev == IF NoTracks(parsed) THEN Ev("error", "download_playlist", 0)
                   ELSE Ev("playlist_start", "download_playlist", 0)
         IN /\ tracks' = parsed
            /\ csv_rows' = Len(csv.rows)
            /\ calls' = [k \in 1..Len(parsed) |->
                            [download_track |-> 0, search |-> 0, download |-> 0]]
            /\ IF cb # "ok"
               THEN /\ Raise("subscriber", Append(events, ev))
                    /\ UNCHANGED result
               ELSE /\ events' = Append(events, ev)
                    /\ raised' = raised
                    /\ IF NoTracks(parsed)
                       THEN pc' = "done" /\ UNCHANGED result
                       ELSE /\ pc' = "makedirs"
                            /\ result' = [result EXCEPT !.total = Len(parsed)]
    /\ UNCHANGED <<cancel_requested, progress_callback, skip_instrumentals, i,
                   hooks, log, loop_cancelled,
                   input, output, cancel_in_run>>

\* Line 522: os.makedirs(output_dir, exist_ok=True), outside any try: an
\* OSError (the directory cannot be created) goes to the caller
Makedirs ==
    /\ pc = "makedirs"
    /\ \E created \in BOOLEAN :
         IF created
         THEN pc' = "loop" /\ UNCHANGED <<raised, events>>
         ELSE Raise("makedirs", events)
    /\ UNCHANGED <<cancel_requested, progress_callback, skip_instrumentals, tracks, i,
                   result, hooks, calls, log, loop_cancelled, csv_rows,
                   input, output, cancel_in_run>>

\* Finish with success computed as "nothing failed".
FinishSuccessIfNoFailure(res, evs) ==
    \E cb \in send_progress_outcomes :
        /\ result' = [res EXCEPT !.success = (res.failed = 0)]
        /\ IF cb # "ok"
           THEN Raise("subscriber", Append(evs, EvComplete(res)))
           ELSE /\ events' = Append(evs, EvComplete(res))
                /\ pc' = "done"
                /\ raised' = raised

\* Finish without the "playlist_complete" event.
FinishWithoutEvent(res, evs) ==
    /\ result' = [res EXCEPT !.success = (res.downloaded > 0)]
    /\ events' = evs
    /\ pc' = "done"
    /\ raised' = raised

\* Lines 567-575 after the events evs: success, "playlist_complete", return
Finish(res, evs) ==
    \E cb \in send_progress_outcomes :
        /\ result' = [res EXCEPT !.success = (res.downloaded > 0)]
        /\ IF cb # "ok"
           THEN Raise("subscriber", Append(evs, EvComplete(res)))
           ELSE /\ events' = Append(evs, EvComplete(res))
                /\ pc' = "done"
                /\ raised' = raised

\* The loop is exhausted
LoopEnd ==
    /\ pc = "loop"
    /\ i = N
    /\ Finish(result, events)
    /\ UNCHANGED <<cancel_requested, progress_callback, skip_instrumentals, tracks, i,
                   hooks, calls, log, loop_cancelled, csv_rows,
                   input, output, cancel_in_run>>

\* LoopCancelled without the break: "cancelled" is emitted and the
\* iteration goes on to call download_track.
LoopCancelledNoBreak ==
    /\ pc = "loop"
    /\ i < N
    /\ cancel_requested
    /\ loop_cancelled' = i
    /\ events' = Append(events, EvCancelled(result, N - i))
    /\ pc' = "dt_entry"
    /\ calls' = [calls EXCEPT ![i + 1].download_track = @ + 1]
    /\ UNCHANGED <<cancel_requested, progress_callback, skip_instrumentals, tracks, i,
                   result, raised, hooks, log, csv_rows,
                   input, output, cancel_in_run>>

\* Lines 526-531: the flag is set at the head of an iteration: "cancelled",
\* break
LoopCancelled ==
    /\ pc = "loop"
    /\ i < N
    /\ cancel_requested
    /\ loop_cancelled' = i
    /\ \E cb \in send_progress_outcomes :
         LET evs == Append(events, EvCancelled(result, N - i))
         IN IF cb # "ok"
            THEN Raise("subscriber", evs) /\ UNCHANGED result
            ELSE Finish(result, evs)
    /\ UNCHANGED <<cancel_requested, progress_callback, skip_instrumentals, tracks, i,
                   hooks, calls, log, csv_rows,
                   input, output, cancel_in_run>>

\* Lines 537-546: the track is an instrumental and those are skipped
LoopSkip ==
    /\ pc = "loop"
    /\ i < N
    /\ ~cancel_requested
    /\ skip_instrumentals /\ IsInstrumental(tracks[i + 1].track_name)
    /\ \E cb \in send_progress_outcomes :
         LET evs == Append(events, Ev("track_skipped", "download_playlist", i + 1))
         IN IF cb # "ok"
            THEN Raise("subscriber", evs) /\ UNCHANGED <<i, log>>
            ELSE /\ events' = evs
                 /\ i' = i + 1
                 /\ log' = Append(log, [index |-> i + 1, outcome |-> "skipped",
                                        cause |-> "skip_instrumentals", path |-> NoPath])
                 /\ UNCHANGED <<pc, raised>>
    /\ UNCHANGED <<cancel_requested, progress_callback, skip_instrumentals, tracks,
                   result, hooks, calls, loop_cancelled, csv_rows,
                   input, output, cancel_in_run>>

\* Line 548: the loop calls download_track for tracks[i]
LoopCallTrack ==
    /\ pc = "loop"
    /\ i < N
    /\ ~cancel_requested
    /\ ~(skip_instrumentals /\ IsInstrumental(tracks[i + 1].track_name))
    /\ pc' = "dt_entry"
    /\ calls' = [calls EXCEPT ![i + 1].download_track = @ + 1]
    /\ UNCHANGED <<cancel_requested, progress_callback, skip_instrumentals, tracks, i,
                   result, events, raised, hooks, log, loop_cancelled, csv_rows,
                   input, output, cancel_in_run>>

(***************************************************************************)
(* download_track (lines 164-382), called by the loop for tracks[i + 1].   *)
(***************************************************************************)
\* download_track returns output_path after the events evs, and the loop
\* accounts for it (lines 557-565).  outcome and cause are history: how the
\* code classes the return, and what led to it.
ReturnToLoop(output_path, outcome, cause, evs) ==
    /\ result' = Account(result, tracks[i + 1], output_path)
    /\ log' = Append(log, [index |-> i + 1, outcome |-> outcome, cause |-> cause,
                           path |-> output_path])
    /\ i' = i + 1
    /\ pc' = "loop"
    /\ events' = evs
    /\ raised' = raised

\* An exception leaves download_track, and with it download_playlist
RaiseInTrack(origin, evs) ==
    /\ Raise(origin, evs)
    /\ UNCHANGED <<result, log, i>>

\* download_track goes on at pc2 after the events evs
Continue(pc2, evs) ==
    /\ pc' = pc2
    /\ events' = evs
    /\ UNCHANGED <<raised, result, log, i>>

\* Lines 371-382: the except clause of download_track, for an exception whose
\* message contains "cancelled" (cancelled_msg) or not
Handle(cancelled_msg, cause, evs) ==
    IF cancelled_msg
    THEN ReturnToLoop(NoPath, "cancelled", cause, evs)
    ELSE \E cb \in send_progress_outcomes :
            LET evs2 == Append(evs, Ev("track_failed", "download_track", i + 1))
            IN IF cb # "ok"
               THEN RaiseInTrack("subscriber", evs2)
               ELSE ReturnToLoop(NoPath, "error", cause, evs2)

\* Lines 179-188: the flag on entry, then "track_start"
TrackEntry ==
    /\ pc = "dt_entry"
    /\ IF cancel_requested
       THEN ReturnToLoop(NoPath, "cancelled", "flag_on_entry", events)
       ELSE \E cb \in send_progress_outcomes :
               LET evs == Append(events, Ev("track_start", "download_track", i + 1))
               IN IF cb # "ok"
                  THEN RaiseInTrack("subscriber", evs)
                  ELSE Continue("dt_search", evs)
    /\ UNCHANGED <<cancel_requested, progress_callback, skip_instrumentals, tracks,
                   hooks, calls, loop_cancelled, csv_rows,
                   input, output, cancel_in_run>>

\* The ways a call of the search capability ends (ydl.extract_info, line 151)
SearchOutcomes == {"url", "none", "raises"}

\* search_youtube without its try/except: the exception leaves it.
search_youtube_uncaught(r) ==
    [url |-> (r = "url"), search_error |-> FALSE, escapes |-> (r = "raises")]

\* search_youtube (lines 134-161): the exception of the capability is caught
\* and reported; the result is the url or None
search_youtube(r) ==
    [url |-> (r = "url"), search_error |-> (r = "raises"), escapes |-> FALSE]

\* Lines 191-199: search, and "track_failed" when nothing is found
TrackSearch ==
    /\ pc = "dt_search"
    /\ calls' = [calls EXCEPT ![i + 1].search = @ + 1]
    /\ \E r \in SearchOutcomes :
         LET found == search_youtube(r)
             evs1 == IF found.search_error
                     THEN Append(events, Ev("search_error", "search_youtube", 0))
                     ELSE events
             evs2 == Append(evs1, Ev("track_failed", "download_track", i + 1))
         IN IF found.escapes
            THEN RaiseInTrack("search", events)
            ELSE IF found.url
            THEN Continue("dt_cancel_check", evs1)
            ELSE \E cb1 \in (IF found.search_error THEN send_progress_outcomes ELSE {"ok"}) :
                    IF cb1 # "ok"
                    THEN RaiseInTrack("subscriber", evs1)
                    ELSE \E cb2 \in send_progress_outcomes :
                            IF cb2 # "ok"
                            THEN RaiseInTrack("subscriber", evs2)
                            ELSE ReturnToLoop(NoPath, "notfound",
                                              IF r = "raises" THEN "search_raised"
                                              ELSE "search_none", evs2)
    /\ UNCHANGED <<cancel_requested, progress_callback, skip_instrumentals, tracks,
                   hooks, loop_cancelled, csv_rows,
                   input, output, cancel_in_run>>

\* TrackCancelCheck without the check: the flag is not read after the search.
TrackCancelCheckNoFlag ==
    /\ pc = "dt_cancel_check"
    /\ hooks' = 0
    /\ \E cb \in send_progress_outcomes :
          LET evs == Append(events, Ev("track_progress", "download_track", i + 1))
          IN IF cb # "ok"
             THEN /\ Handle(FALSE, "subscriber_raised", evs)
                  /\ UNCHANGED calls
             ELSE /\ Continue("dt_download", evs)
                  /\ calls' = [calls EXCEPT ![i + 1].download = @ + 1]
    /\ UNCHANGED <<cancel_requested, progress_callback, skip_instrumentals, tracks,
                   loop_cancelled, csv_rows, input, output, cancel_in_run>>

\* Lines 201-267: the flag after the search, then, inside the try block,
\* "track_progress" (downloading) and the call of the download capability
TrackCancelCheck ==
    /\ pc = "dt_cancel_check"
    /\ hooks' = 0
    /\ IF cancel_requested
       THEN /\ ReturnToLoop(NoPath, "cancelled", "flag_after_search", events)
            /\ UNCHANGED calls
       ELSE \E cb \in send_progress_outcomes :
               LET evs == Append(events, Ev("track_progress", "download_track", i + 1))
               IN IF cb # "ok"
                  THEN /\ Handle(FALSE, "subscriber_raised", evs)
                       /\ UNCHANGED calls
                  ELSE /\ Continue("dt_download", evs)
                       /\ calls' = [calls EXCEPT ![i + 1].download = @ + 1]
    /\ UNCHANGED <<cancel_requested, progress_callback, skip_instrumentals, tracks,
                   loop_cancelled, csv_rows,
                   input, output, cancel_in_run>>

\* progress_hook (lines 209-230), called by the download capability during
\* the transfer: it raises when the flag is set, else reports progress
ProgressHook ==
    /\ pc = "dt_download"
    /\ hooks < MaxHooks
    /\ hooks' = hooks + 1
    /\ IF cancel_requested
       THEN Handle(TRUE, "flag_in_progress_hook", events)
       ELSE \E status \in {"downloading", "finished"},
               cb \in send_progress_outcomes :
               LET evs == IF status = "other" THEN events
                          ELSE Append(events, Ev("track_progress", "progress_hook", i + 1))
               IN IF status # "other" /\ cb # "ok"
                  THEN Handle(FALSE, "subscriber_raised", evs)
                  ELSE Continue("dt_download", evs)
    /\ UNCHANGED <<cancel_requested, progress_callback, skip_instrumentals, tracks,
                   calls, loop_cancelled, csv_rows,
                   input, output, cancel_in_run>>

\* Lines 340-359: choosing the thumbnail raises inside the outer try block
\* (max() over info['thumbnails'] multiplies height by width, and an entry
\* may hold None for them; there is no info, no choice), or set_id3_tags
\* fails, which it and the try block around it swallow, or both succeed
TaggingOutcomes == {"thumbnail_raises", "tags_fail", "ok"}

\* Lines 262-369: the download call returns or raises; the file is
\* identified; the thumbnail is chosen (max() over the reported thumbnails
\* may raise on a malformed entry); the tags are set (set_id3_tags and the
\* try around it swallow every exception); "track_complete"
TrackDownload ==
    /\ pc = "dt_download"
    /\ LET track == tracks[i + 1]
           template == output_template(track.track_name, track.artist_name)
       IN \E d \in DownloadOutcomes(template) :
            IF d.raises
            THEN Handle(d.cancelled_msg, "download_raised", events)
            ELSE \E output_path \in IdentifyFile(template, d.before, d.after, d.info) :
                    LET evs == Append(events, Ev("track_complete", "download_track", i + 1))
                    IN IF output_path = NoPath
                       THEN ReturnToLoop(NoPath, "error", "file_not_found", events)
                       ELSE \E tagging \in (IF d.info = NoInfo
                                             THEN TaggingOutcomes \ {"thumbnail_raises"}
                                             ELSE TaggingOutcomes) :
                               IF tagging = "thumbnail_raises"
                               THEN Handle(FALSE, "thumbnail_raised", events)
                               ELSE \E cb \in send_progress_outcomes :
                                       IF cb # "ok"
                                       THEN Handle(FALSE, "subscriber_raised", evs)
                                       ELSE ReturnToLoop(output_path, "success", "ok", evs)
    /\ UNCHANGED <<cancel_requested, progress_callback, skip_instrumentals, tracks,
                   hooks, calls, loop_cancelled, csv_rows,
                   input, output, cancel_in_run>>

Next ==
    \/ SetProgressCallback
    \/ CancelDownload
    \/ Call
    \/ ResetCancel
    \/ ParseCsv
    \/ Makedirs
    \/ LoopEnd
    \/ LoopCancelled
    \/ LoopSkip
    \/ LoopCallTrack
    \/ TrackEntry
    \/ TrackSearch
    \/ TrackCancelCheck
    \/ ProgressHook
    \/ TrackDownload

Spec == Init /\ [][Next]_vars

(***************************************************************************)
(* File identification on its own (download_track, lines 255-336): the    *)
(* directory before and after the download call and the info dict are     *)
(* drawn from bounded sets, and the step computes output_path.            *)
(***************************************************************************)
program_vars == <<cancel_requested, progress_callback, pc, skip_instrumentals, tracks,
                  i, result, events, raised, hooks, calls, log, loop_cancelled,
                  csv_rows, cancel_in_run>>

\* output_template of the track the files belong to
Stem == output_template(TitleSong, ArtistA)

FileM4a == Stem \o ExtM4a
FileWebm == Stem \o ExtWebm
FileAac == Stem \o ExtAac
FileJpg == Stem \o <<".","j","p","g">>
FileOther == <<"z","z">> \o ExtM4a

\* The files the output directory can hold: the stem with an extension that
\* Method 4 probes (m4a, webm), with an audio extension it does not probe
\* (aac), with no audio extension (jpg), and a file of another name.
DirFiles == {FileM4a, FileWebm, FileAac, FileJpg, FileOther}

\* What ydl.extract_info returns: None, or a dict with '_filename',
\* requested_downloads[0]['filepath'] (NoPath: absent) and 'ext'
Infos ==
    {NoInfo} \cup [filename : {NoPath, FileM4a, FileWebm, FileOther},
                   requested : {NoPath, FileM4a, FileOther},
                   ext : {<<"m","4","a">>, <<"w","e","b","m">>}]

IdentifyInputs ==
    [fn : {"identify"}, template : {Stem}, before : SUBSET DirFiles,
     after : SUBSET DirFiles, info : Infos]

InitIdentify ==
    /\ Idle
    /\ input \in IdentifyInputs
    /\ output = NoCall

\* Lines 274-336: Methods 1 to 4 and the final verification
FileIdentification ==
    /\ input.fn = "identify"
    /\ output = NoCall
    /\ \E p \in IdentifyFile(input.template, input.before, input.after, input.info) :
         output' = [fn |-> "identify", output_path |-> p]
    /\ UNCHANGED <<program_vars, input>>

NextIdentify == FileIdentification

SpecIdentify == InitIdentify /\ [][NextIdentify]_vars

(***************************************************************************)
(* parse_csv on its own (lines 48-120): the header row and the data rows   *)
(* are drawn from bounded sets.                                            *)
(***************************************************************************)
\* Header rows as the reader splits them (a space after a comma stays with
\* the next fieldname): "Song Name, Artist(s), Album"; the header of
\* Exportify; upper case and trailing space, no album column; a fieldname
\* twice and two fieldnames for the track; no column for the track.
HeaderSongArtistS == <<<<"S","o","n","g"," ","N","a","m","e">>, <<" ","A","r","t","i","s","t","(","s",")">>, <<" ","A","l","b","u","m">>>>
HeaderUpper == <<<<"T","I","T","L","E"," ">>, <<"P","e","r","f","o","r","m","e","r">>>>
HeaderTwice == <<<<"T","i","t","l","e">>, <<"N","a","m","e">>, <<"T","i","t","l","e">>, <<"A","r","t","i","s","t">>>>
HeaderNoTrack == <<<<"G","e","n","r","e">>, <<"A","r","t","i","s","t">>>>

Headers == {HeaderSongArtistS, ExportifyHeader, HeaderUpper, HeaderTwice, HeaderNoTrack}

\* The values of a data row: a word, a word between spaces, nothing
ValueX == <<"X">>
ValuePadded == <<" ", "Y", " ">>
Values == {ValueX, ValuePadded, <<>>}

\* Data rows of two or three values: shorter and longer than a header
DataRows == {r \in SeqsUpTo(Values, 3) : Len(r) >= 2}

ParseInputs ==
    [fn : {"parse_csv"}, fieldnames : Headers, rows : SeqsUpTo(DataRows, MaxRows),
     error_at : {0}]
      \cup [fn : {"parse_csv"}, fieldnames : Headers,
            rows : SeqsUpTo({<<ValueX, ValuePadded>>}, MaxRows), error_at : 1..MaxRows]

InitParse ==
    /\ Idle
    /\ input \in ParseInputs
    /\ output = NoCall

\* get_tracks_from_csv (lines 611-613): parse_csv(csv_content)
GetTracksFromCsv ==
    /\ input.fn = "parse_csv"
    /\ output = NoCall
    /\ output' = [fn |-> "parse_csv", tracks |-> parse_csv(input)]
    /\ UNCHANGED <<program_vars, input>>

NextParse == GetTracksFromCsv

SpecParse == InitParse /\ [][NextParse]_vars

(***************************************************************************)
(* generate_m3u on its own (lines 578-598).                                *)
(***************************************************************************)
\* os.path.basename: what follows the last "/"
Basename(file_path) ==
    LET slashes == {k \in 1..Len(file_path) : file_path[k] = "/"}
    IN IF slashes = {} THEN file_path
       ELSE SubSeq(file_path, 1 + CHOOSE k \in slashes : \A j \in slashes : j <= k,
                   Len(file_path))

ExtM3u == <<".","m","3","u">>
HeaderLine == <<"#","E","X","T","M","3","U">>

\* M3uLines with each path written as it is given.
M3uLinesFullPath(output_files) == <<HeaderLine>> \o output_files

\* Lines 587-591: the lines written to the file
M3uLines(output_files) ==
    <<HeaderLine>> \o [k \in 1..Len(output_files) |-> Basename(output_files[k])]

\* m3u_path (line 583), without the directory
m3u_path(playlist_name) == sanitize_filename(playlist_name) \o ExtM3u

NoFile == [name |-> NoPath, lines |-> <<>>]

\* Output files: in two directories, and without a directory
PathsOfFiles == {<<"d","/","a",".","m","4","a">>, <<"e","/","f","/","b",".","m","p","3">>, <<"a",".","m","4","a">>}
\* Playlist names: plain; with characters that are removed; with dots and
\* spaces around; with nothing left after sanitizing
PlaylistNames == {<<"M","y"," ","M","i","x">>, <<"M",":","x","?">>, <<" ",".","M","i","x","."," ">>, <<"?","*">>}

M3uInputs ==
    [fn : {"generate_m3u"}, output_files : SeqsUpTo(PathsOfFiles, MaxRows),
     playlist_name : PlaylistNames]

InitM3u ==
    /\ Idle
    /\ input \in M3uInputs
    /\ output = NoCall

\* What open() and f.write() can do: all is written; open() raises and there
\* is no file; a write raises and the file has its first line only
WriteOutcomes == {"ok", "open_raises", "write_raises"}

\* generate_m3u.  "write" and "sink" are history: what the file system did,
\* and the event at which the callback raised.
GenerateM3u ==
    /\ input.fn = "generate_m3u"
    /\ output = NoCall
    /\ IF input.output_files = <<>>
       THEN /\ output' = [fn |-> "generate_m3u", write |-> "none", sink |-> "ok",
                          file |-> NoFile, ret |-> NoPath]
            /\ UNCHANGED <<events, raised>>
       ELSE \E w \in WriteOutcomes, cb1 \in send_progress_outcomes,
               cb2 \in send_progress_outcomes :
              LET path == m3u_path(input.playlist_name)
                  file == IF w = "ok"
                          THEN [name |-> path, lines |-> M3uLines(input.output_files)]
                          ELSE IF w = "write_raises"
                          THEN [name |-> path, lines |-> <<HeaderLine>>]
                          ELSE NoFile
                  created == IF w = "ok"
                             THEN Append(events, Ev("m3u_created", "generate_m3u", 0))
                             ELSE events
                  out == [fn |-> "generate_m3u", write |-> w, sink |-> "ok",
                          file |-> file, ret |-> NoPath]
              IN IF w = "ok" /\ cb1 = "ok"
                 THEN /\ output' = [out EXCEPT !.ret = path]
                      /\ events' = created
                      /\ UNCHANGED raised
                 ELSE \* the except clause (lines 596-598)
                      /\ events' = Append(created, Ev("warning", "generate_m3u", 0))
                      /\ IF cb2 = "ok"
                         THEN /\ output' = [out EXCEPT !.sink =
                                               IF w = "ok" THEN "raised_on_m3u_created"
                                               ELSE "ok"]
                              /\ UNCHANGED raised
                         ELSE /\ output' = [out EXCEPT !.sink = "raised_on_warning"]
                              /\ raised' = "subscriber"
    /\ UNCHANGED <<cancel_requested, progress_callback, pc, skip_instrumentals, tracks,
                   i, result, hooks, calls, log, loop_cancelled, csv_rows,
                   cancel_in_run, input>>

NextM3u ==
    \/ SetProgressCallback
    \/ GenerateM3u

SpecM3u == InitM3u /\ [][NextM3u]_vars

(***************************************************************************)
(* download_playlist with the history of the cancel requests: the same     *)
(* steps, and cancel_download notes whether it was called during the run   *)
(* and before the loop has checked its last track.                         *)
(***************************************************************************)
\* download_playlist has been called and the cancellation check of the loop
\* (line 526) is still to come for some track
BeforeLastCheck ==
    \/ pc \in {"entry", "parse", "makedirs"}
    \/ pc = "loop" /\ i < N
    \/ pc \in {"dt_entry", "dt_search", "dt_cancel_check", "dt_download"} /\ i + 1 < N

\* cancel_download (lines 35-39)
CancelDownloadInRun ==
    /\ cancel_requested' = TRUE
    /\ cancel_in_run' = (cancel_in_run \/ BeforeLastCheck)
    /\ UNCHANGED <<progress_callback, pc, skip_instrumentals, tracks, i, result, events,
                   raised, hooks, calls, log, loop_cancelled, csv_rows, input, output>>

NextCancel ==
    \/ SetProgressCallback
    \/ CancelDownloadInRun
    \/ Call
    \/ ResetCancel
    \/ ParseCsv
    \/ Makedirs
    \/ LoopEnd
    \/ LoopCancelled
    \/ LoopSkip
    \/ LoopCallTrack
    \/ TrackEntry
    \/ TrackSearch
    \/ TrackCancelCheck
    \/ ProgressHook
    \/ TrackDownload

SpecCancel == Init /\ [][NextCancel]_vars

(***************************************************************************)
(* download_single_track (lines 616-651): the host drives the tracks one   *)
(* by one.  tracks holds the arguments of the calls made so far, i counts  *)
(* the calls that have returned, output is the dict the last call          *)
(* returned, and cancel_in_run notes a cancel_download since the previous  *)
(* call returned.  The steps of download_track are those of the playlist   *)
(* loop; what differs is the caller: no reset_cancel on entry, and a       *)
(* try/except around the call.                                             *)
(***************************************************************************)
SingleTracks ==
    {[track_name |-> t, artist_name |-> ArtistA, album_name |-> <<>>]
        : t \in {TitleSong, TitleKaraoke}}

\* cancel_download (lines 35-39)
CancelDownloadSingle ==
    /\ cancel_requested' = TRUE
    /\ cancel_in_run' = TRUE
    /\ UNCHANGED <<progress_callback, pc, skip_instrumentals, tracks, i, result, events,
                   raised, hooks, calls, log, loop_cancelled, csv_rows, input, output>>

\* Lines 616-635: the host calls download_single_track, which calls
\* download_track at once; nothing touches the flag
CallSingle ==
    /\ pc = "idle"
    /\ i < MaxRows
    /\ \E t \in SingleTracks : tracks' = Append(tracks, t)
    /\ calls' = Append(calls, [download_track |-> 1, search |-> 0, download |-> 0])
    /\ pc' = "dt_entry"
    /\ UNCHANGED <<cancel_requested, progress_callback, skip_instrumentals, i, result,
                   events, raised, hooks, log, loop_cancelled, csv_rows, input, output,
                   cancel_in_run>>

\* Lines 637-646: download_track returned output_path after the events evs,
\* and download_single_track returns its dict to the host
SingleReturn(output_path, outcome, cause, evs) ==
    /\ output' = [fn |-> "download_single_track",
                  success |-> (output_path # NoPath),
                  path |-> output_path,
                  error |-> IF output_path # NoPath THEN "none" ELSE "no output file"]
    /\ log' = Append(log, [index |-> i + 1, outcome |-> outcome, cause |-> cause,
                           path |-> output_path, cancel_since |-> cancel_in_run])
    /\ i' = i + 1
    /\ pc' = "idle"
    /\ events' = evs
    /\ cancel_in_run' = FALSE

\* Lines 647-651: an exception left download_track after the events evs;
\* download_single_track catches it and returns its message
SingleCatch(cause, evs) ==
    /\ output' = [fn |-> "download_single_track", success |-> FALSE,
                  path |-> NoPath, error |-> "str(e)"]
    /\ log' = Append(log, [index |-> i + 1, outcome |-> "error", cause |-> cause,
                           path |-> NoPath, cancel_since |-> cancel_in_run])
    /\ i' = i + 1
    /\ pc' = "idle"
    /\ events' = evs
    /\ cancel_in_run' = FALSE

\* download_track goes on at pc2 after the events evs
SingleContinue(pc2, evs) ==
    /\ pc' = pc2
    /\ events' = evs
    /\ UNCHANGED <<output, log, i, cancel_in_run>>

\* Lines 371-382: the except clause of download_track
SingleHandle(cancelled_msg, cause, evs) ==
    IF cancelled_msg
    THEN SingleReturn(NoPath, "cancelled", cause, evs)
    ELSE \E cb \in send_progress_outcomes :
            LET evs2 == Append(evs, Ev("track_failed", "download_track", i + 1))
            IN IF cb # "ok"
               THEN SingleCatch("subscriber_raised", evs2)
               ELSE SingleReturn(NoPath, "error", cause, evs2)

\* Lines 179-188: the flag on entry, then "track_start"
SingleEntry ==
    /\ pc = "dt_entry"
    /\ IF cancel_requested
       THEN SingleReturn(NoPath, "cancelled", "flag_on_entry", events)
       ELSE \E cb \in send_progress_outcomes :
               LET evs == Append(events, Ev("track_start", "download_track", i + 1))
               IN IF cb # "ok"
                  THEN SingleCatch("subscriber_raised_on_start", evs)
                  ELSE SingleContinue("dt_search", evs)
    /\ UNCHANGED <<cancel_requested, progress_callback, skip_instrumentals, tracks,
                   result, raised, hooks, calls, loop_cancelled, csv_rows, input>>

\* Lines 191-199: search, and "track_failed" when nothing is found
SingleSearch ==
    /\ pc = "dt_search"
    /\ calls' = [calls EXCEPT ![i + 1].search = @ + 1]
    /\ \E r \in SearchOutcomes :
         LET found == search_youtube(r)
             evs1 == IF found.search_error
                     THEN Append(events, Ev("search_error", "search_youtube", 0))
                     ELSE events
             evs2 == Append(evs1, Ev("track_failed", "download_track", i + 1))
         IN IF found.url
            THEN SingleContinue("dt_cancel_check", evs1)
            ELSE \E cb1 \in (IF found.search_error THEN send_progress_outcomes ELSE {"ok"}) :
                    IF cb1 # "ok"
                    THEN SingleCatch("subscriber_raised", evs1)
                    ELSE \E cb2 \in send_progress_outcomes :
                            IF cb2 # "ok"
                            THEN SingleCatch("subscriber_raised", evs2)
                            ELSE SingleReturn(NoPath, "notfound",
                                              IF r = "raises" THEN "search_raised"
                                              ELSE "search_none", evs2)
    /\ UNCHANGED <<cancel_requested, progress_callback, skip_instrumentals, tracks,
                   result, raised, hooks, loop_cancelled, csv_rows, input>>

\* Lines 201-267: the flag after the search, then, inside the try block,
\* "track_progress" (downloading) and the call of the download capability
SingleCancelCheck ==
    /\ pc = "dt_cancel_check"
    /\ hooks' = 0
    /\ IF cancel_requested
       THEN /\ SingleReturn(NoPath, "cancelled", "flag_after_search", events)
            /\ UNCHANGED calls
       ELSE \E cb \in send_progress_outcomes :
               LET evs == Append(events, Ev("track_progress", "download_track", i + 1))
               IN IF cb # "ok"
                  THEN /\ SingleHandle(FALSE, "subscriber_raised", evs)
                       /\ UNCHANGED calls
                  ELSE /\ SingleContinue("dt_download", evs)
                       /\ calls' = [calls EXCEPT ![i + 1].download = @ + 1]
    /\ UNCHANGED <<cancel_requested, progress_callback, skip_instrumentals, tracks,
                   result, raised, loop_cancelled, csv_rows, input>>

\* progress_hook (lines 209-230), called by the download capability during
\* the transfer: it raises when the flag is set, else reports progress
SingleHook ==
    /\ pc = "dt_download"
    /\ hooks < MaxHooks
    /\ hooks' = hooks + 1
    /\ IF cancel_requested
       THEN SingleHandle(TRUE, "flag_in_progress_hook", events)
       ELSE \E cb \in send_progress_outcomes :
               LET evs == Append(events, Ev("track_progress", "progress_hook", i + 1))
               IN IF cb # "ok"
                  THEN SingleHandle(FALSE, "subscriber_raised", evs)
                  ELSE SingleContinue("dt_download", evs)
    /\ UNCHANGED <<cancel_requested, progress_callback, skip_instrumentals, tracks,
                   result, raised, calls, loop_cancelled, csv_rows, input>>

\* Lines 262-369: the download call returns or raises; the file is
\* identified; the thumbnail is chosen; the tags are set; "track_complete"
SingleDownload ==
    /\ pc = "dt_download"
    /\ LET track == tracks[i + 1]
           template == output_template(track.track_name, track.artist_name)
       IN \E d \in DownloadOutcomes(template) :
            IF d.raises
            THEN SingleHandle(d.cancelled_msg, "download_raised", events)
            ELSE \E output_path \in IdentifyFile(template, d.before, d.after, d.info) :
                    LET evs == Append(events, Ev("track_complete", "download_track", i + 1))
                    IN IF output_path = NoPath
                       THEN SingleReturn(NoPath, "error", "file_not_found", events)
                       ELSE \E tagging \in (IF d.info = NoInfo
                                             THEN TaggingOutcomes \ {"thumbnail_raises"}
                                             ELSE TaggingOutcomes) :
                               IF tagging = "thumbnail_raises"
                               THEN SingleHandle(FALSE, "thumbnail_raised", events)
                               ELSE \E cb \in send_progress_outcomes :
                                       IF cb # "ok"
                                       THEN SingleHandle(FALSE, "subscriber_raised", evs)
                                       ELSE SingleReturn(output_path, "success", "ok", evs)
    /\ UNCHANGED <<cancel_requested, progress_callback, skip_instrumentals, tracks,
                   result, raised, hooks, calls, loop_cancelled, csv_rows, input>>

NextSingle ==
    \/ SetProgressCallback
    \/ CancelDownloadSingle
    \/ CallSingle
    \/ SingleEntry
    \/ SingleSearch
    \/ SingleCancelCheck
    \/ SingleHook
    \/ SingleDownload

SpecSingle == Init /\ [][NextSingle]_vars

(***************************************************************************)
(* sanitize_filename (lines 123-131), called on its own, with the length   *)
(* limit of 200 scaled down to NameBound so that names longer than the     *)
(* limit are among the inputs.                                             *)
(***************************************************************************)
NameBound == 3

\* A letter, the two characters strip() removes, and a character re.sub()
\* removes
NameChars == {"a", ".", " ", "?"}

RECURSIVE StringsUpTo(_, _)
StringsUpTo(chars, n) ==
    IF n = 0 THEN {<<>>}
    ELSE LET shorter == StringsUpTo(chars, n - 1)
         IN shorter \cup {Append(s, c) : s \in {t \in shorter : Len(t) = n - 1}, c \in chars}

\* Every name of up to NameBound + 2 characters
SanitizeInputs == {[fn |-> "sanitize_filename", name |-> s] : s \in StringsUpTo(NameChars, NameBound + 2)}

InitSanitize ==
    /\ Idle
    /\ input \in SanitizeInputs
    /\ output = NoCall

SanitizeFilename ==
    /\ input.fn = "sanitize_filename"
    /\ output = NoCall
    /\ output' = [fn |-> "sanitize_filename",
                  result |-> sanitize_within(input.name, NameBound)]
    /\ UNCHANGED <<program_vars, input>>

NextSanitize == SanitizeFilename

SpecSanitize == InitSanitize /\ [][NextSanitize]_vars

(***************************************************************************)
(* Properties.                                                             *)
(***************************************************************************)
CountEvents(type) == Cardinality({k \in 1..Len(events) : events[k].type = type})

Returned == pc = "done"

\* The titles of Titles that contain "karaoke" or "instrumental" in some
\* letter case, listed by hand
InstrumentalTitles == {TitleKaraoke, TitleInstrumental}

NoCalls == [download_track |-> 0, search |-> 0, download |-> 0]

\* C1: when download_playlist returns from a run without skip_instrumentals
\* and without a cancel request, in which search_youtube and download_track
\* succeeded for every track, then total = downloaded = N, failed = 0,
\* failed_tracks is empty and output_files holds, in CSV order, the file
\* download_track returned for each track.
C1_AllSucceed ==
    (/\ Returned
     /\ ~skip_instrumentals
     /\ ~cancel_requested
     /\ \A k \in 1..Len(log) : log[k].outcome = "success")
    => /\ result.total = N
       /\ result.downloaded = N
       /\ result.failed = 0
       /\ result.failed_tracks = <<>>
       /\ Len(result.output_files) = N
       /\ Len(log) = N
       /\ \A k \in 1..N : /\ log[k].index = k
                          /\ result.output_files[k] = log[k].path
                          /\ log[k].path # NoPath

\* C1 witness: a returned run of two different tracks, both downloaded.
C1_Witness ==
    /\ Returned /\ ~skip_instrumentals /\ ~cancel_requested
    /\ N = 2 /\ tracks[1] # tracks[2]
    /\ Len(log) = 2 /\ log[1].outcome = "success" /\ log[2].outcome = "success"
    /\ result.output_files[1] # result.output_files[2]

\* The causes of a Cancelled outcome that the flag produces: it was set when
\* download_track was entered, when the search returned, or during the
\* transfer.
FlagCauses == {"flag_on_entry", "flag_after_search", "flag_in_progress_hook"}

FailuresCounted ==
    {k \in 1..Len(log) : /\ log[k].outcome \notin {"success", "skipped"}
                         /\ ~(log[k].outcome = "cancelled" /\ log[k].cause \in FlagCauses)}

\* C2 (as claimed): a track whose outcome is Cancelled because of the flag
\* does not increment failed and is not appended to failed_tracks: failed and
\* the length of failed_tracks count the other non-success tracks only.
C2_CancelledNotFailed ==
    /\ result.failed = Cardinality(FailuresCounted)
    /\ Len(result.failed_tracks) = Cardinality(FailuresCounted)

\* C3: once the loop has found the flag set at the head of the iteration of
\* track k (loop_cancelled = k - 1), download_track, the search and the
\* download have not been and are never called for track k or a later track,
\* the loop does not advance, the run is over, and a returned result has
\* downloaded + failed < N.
C3_CancelStopsLoop ==
    loop_cancelled # -1
    => /\ pc \in {"done", "raised"}
       /\ i = loop_cancelled
       /\ \A j \in (loop_cancelled + 1)..N : calls[j] = NoCalls
       /\ Returned => result.downloaded + result.failed < N

\* C3 witness: the first track was processed, the flag was found set at the
\* head of the second iteration, and the run returned.
C3_Witness ==
    /\ Returned /\ N = 2 /\ loop_cancelled = 1
    /\ calls[1].search = 1 /\ calls[2] = NoCalls

\* C4 (as claimed): in a returned run that the loop's cancellation check
\* stopped, the last event of the run is a "cancelled" event.
C4_CancelledIsLast ==
    (Returned /\ loop_cancelled # -1) => events[Len(events)].type = "cancelled"

\* C4 (amended): in a run that the loop's cancellation check stopped, the
\* run emits one "cancelled" event, and after it nothing but one
\* "playlist_complete" event, which a returned run has emitted.
C4_CancelledThenComplete ==
    loop_cancelled # -1
    => \E j \in 1..Len(events) :
          /\ events[j].type = "cancelled"
          /\ \A m \in 1..Len(events) : events[m].type = "cancelled" => m = j
          /\ Len(events) <= j + 1
          /\ Len(events) = j + 1 => events[j + 1].type = "playlist_complete"
          /\ Returned => Len(events) = j + 1

\* C4 witness: a returned run whose loop was stopped before its second track.
C4_Witness ==
    /\ Returned /\ loop_cancelled = 1 /\ N = 2
    /\ events[Len(events)].type = "playlist_complete"
    /\ events[Len(events) - 1].type = "cancelled"

\* C5: a run of download_playlist emits "playlist_complete" at most once,
\* as its last event and only when the run is over (the loop has ended by
\* completion or by cancellation); a run that parsed at least one track and
\* returns has emitted exactly one, carrying total/downloaded/failed of the
\* returned result, and the returned success is (downloaded > 0).
C5_PlaylistComplete ==
    /\ CountEvents("playlist_complete") <= 1
    /\ CountEvents("playlist_complete") = 1
       => /\ pc \in {"done", "raised"}
          /\ events[Len(events)].type = "playlist_complete"
          /\ i = N \/ loop_cancelled = i
    /\ (Returned /\ N >= 1)
       => /\ CountEvents("playlist_complete") = 1
          /\ events[Len(events)] = EvComplete(result)
          /\ result.success = (result.downloaded > 0)

\* C5 witness: a run that downloaded its first track, was stopped by the
\* cancellation check before the second, and returned success.
C5_Witness ==
    /\ Returned /\ N = 2 /\ loop_cancelled = 1
    /\ result.downloaded = 1 /\ result.success
    /\ events[Len(events)] = EvComplete(result)

\* C6: with skip_instrumentals, a track whose name contains "karaoke" or
\* "instrumental" in any letter case is never passed to download_track, the
\* search or the download, the only event with its index is
\* "track_skipped", it is in neither output_files nor failed_tracks and is
\* counted in neither downloaded nor failed; without skip_instrumentals
\* every track the loop has passed was given to download_track once.
C6_SkipInstrumentals ==
    /\ skip_instrumentals
       => /\ \A k \in 1..N :
                tracks[k].track_name \in InstrumentalTitles
                => /\ calls[k] = NoCalls
                   /\ \A m \in 1..Len(events) :
                         events[m].index = k => events[m].type = "track_skipped"
                   /\ k <= Len(log) => log[k].outcome = "skipped"
                   /\ \A m \in 1..Len(result.failed_tracks) :
                         result.failed_tracks[m].track # tracks[k].track_name
                   /\ \A m \in 1..Len(result.output_files) :
                         ~StartsWith(result.output_files[m],
                                     output_template(tracks[k].track_name,
                                                     tracks[k].artist_name))
          /\ result.downloaded + result.failed
                = Cardinality({k \in 1..Len(log) : log[k].outcome # "skipped"})
    /\ ~skip_instrumentals
       => \A k \in 1..Len(log) : /\ log[k].outcome # "skipped"
                                 /\ calls[k].download_track = 1

\* C6 witness: a returned run with skip_instrumentals over a karaoke track
\* and a plain one, the first skipped, the second downloaded.
C6_Witness ==
    /\ Returned /\ skip_instrumentals /\ N = 2
    /\ tracks[1].track_name = TitleKaraoke /\ tracks[2].track_name = TitleSong
    /\ Len(log) = 2
    /\ log[1].outcome = "skipped" /\ log[2].outcome = "success"
    /\ result.downloaded = 1 /\ result.failed = 0

\* C7: when the CSV yields no valid track, the only event the run emits is
\* "error" (no "playlist_start", no "playlist_complete", no per-track event),
\* and the run that returns returns success = false, total = downloaded =
\* failed = 0 and empty lists.
C7_EmptyCsv ==
    (pc \notin {"idle", "entry", "parse"} /\ N = 0)
    => /\ events = <<Ev("error", "download_playlist", 0)>>
       /\ pc \in {"done", "raised"}
       /\ Returned => result = ZeroResult

\* C7 witness: the CSV had rows, none with both track and artist, and the
\* run returned.
C7_Witness ==
    /\ Returned /\ N = 0 /\ csv_rows = MaxRows
    /\ events = <<Ev("error", "download_playlist", 0)>>

FailureCauses == {"search_raised", "search_none", "download_raised", "file_not_found"}

\* C8: no exception of the search or the download leaves download_track; a
\* track whose search raised or found nothing, or whose download raised or
\* left no file, has a non-success outcome and no path; download_track, the
\* search and the download are called at most once per track; the loop
\* passes the tracks in CSV order, and a run that returns without having
\* been stopped by the cancellation check has passed all of them.
C8_FailuresDoNotAbort ==
    /\ raised \notin {"search", "download"}
    /\ \A k \in 1..N : /\ calls[k].download_track <= 1
                       /\ calls[k].search <= 1
                       /\ calls[k].download <= 1
    /\ \A k \in 1..Len(log) :
          /\ log[k].index = k
          /\ log[k].cause \in FailureCauses
             => log[k].outcome \in {"notfound", "error", "cancelled"} /\ log[k].path = NoPath
    /\ Len(log) = i
    /\ (Returned /\ loop_cancelled = -1) => Len(log) = N

\* C8 witness: the search of the first track raised, the second track was
\* downloaded, and the run returned.
C8_Witness ==
    /\ Returned /\ N = 2 /\ Len(log) = 2
    /\ log[1].cause = "search_raised" /\ log[1].outcome = "notfound"
    /\ log[2].outcome = "success"

\* C9 (as claimed): an exception of the progress callback never leaves
\* download_playlist or download_track.
C9_SubscriberNeverInterrupts == raised # "subscriber"

\* C10 (as claimed): no structural failure (the output directory cannot be
\* created, the CSV cannot be parsed) raises to the caller of
\* download_playlist.
C10_StructuralFailureReturns == raised \notin {"makedirs", "parse_csv"}

Identified == output.fn = "identify"

new_files == input.after \ input.before

\* C11: if exactly one file is new in the output directory after the
\* download call, file identification yields exactly that file as
\* output_path, whatever the info dict reports (nothing, a path that does not
\* exist, another file that exists).
C11_OneNewFileIsAuthoritative ==
    (Identified /\ Cardinality(new_files) = 1)
    => \A f \in new_files : output.output_path = f

\* C11 witness: the info dict reports neither _filename nor
\* requested_downloads, the directory held other files before, the one new
\* file is the stem with .m4a, and it is the output_path.
C11_Witness ==
    /\ Identified
    /\ input.info # NoInfo /\ input.info.filename = NoPath /\ input.info.requested = NoPath
    /\ input.before = {FileOther, FileJpg}
    /\ new_files = {FileM4a}
    /\ output.output_path = FileM4a

\* The candidates of the fallback chain in the order the claim gives them:
\* reported _filename, first requested_downloads filepath, path built from
\* the reported extension, audio matches of the glob, all matches of the
\* glob, then each probed extension.
ClaimedChain ==
    LET t == input.template
        info == input.info
        reported == IF info = NoInfo THEN <<>>
                    ELSE <<{info.filename}, {info.requested}, {t \o <<".">> \o info.ext}>>
        matches == {p \in input.after : StartsWith(p, t)}
        audio_matches == {m \in matches : \E ext \in audio_exts : EndsWith(m, ext)}
        probes == [k \in 1..Len(direct_exts) |-> {t \o direct_exts[k]}]
    IN reported \o <<audio_matches, matches>> \o probes

\* The candidates of the k-th link that exist on disk
OnDisk(k) == (ClaimedChain[k] \ {NoPath}) \cap input.after

\* What the claim lets file identification return: a file of the first link
\* of the chain that has one on disk, and a failure when no link has one.
ClaimedChoice ==
    IF \A k \in 1..Len(ClaimedChain) : OnDisk(k) = {} THEN {NoPath}
    ELSE OnDisk(CHOOSE k \in 1..Len(ClaimedChain) :
                    /\ OnDisk(k) # {}
                    /\ \A j \in 1..(k - 1) : OnDisk(j) = {})

\* C12 (as claimed): when the new-file diff does not yield exactly one file,
\* output_path is the first candidate of the chain that exists on disk, and
\* it is a failure only when no candidate of the chain exists.
C12_FirstExistingWins ==
    (Identified /\ Cardinality(new_files) # 1) => output.output_path \in ClaimedChoice

Parsed == output.fn = "parse_csv"

\* C13 (as claimed): parse_csv on a CSV whose header row is "Song Name,
\* Artist(s), Album", followed by one data row with a track, an artist and
\* an album, returns one record with track_name, artist_name and album_name
\* populated.
C13_SongArtistSAlbum ==
    (/\ Parsed
     /\ input.fieldnames = HeaderSongArtistS
     /\ input.error_at = 0
     /\ Len(input.rows) = 1
     /\ Len(input.rows[1]) = 3
     /\ \A k \in 1..3 : Strip(input.rows[1][k], Whitespace) # <<>>)
    => /\ Len(output.tracks) = 1
       /\ Get(output.tracks[1], "track_name") # <<>>
       /\ Get(output.tracks[1], "artist_name") # <<>>
       /\ Get(output.tracks[1], "album_name") # <<>>

M3uDone == output.fn = "generate_m3u"

\* C14: generate_m3u with an empty list writes no file, emits nothing and
\* returns None.  With a non-empty list and a file system that takes the
\* writes, the file is "<sanitized playlist name>.m3u", its lines are
\* "#EXTM3U" and then the basename of each output file in the order of the
\* list, "m3u_created" is emitted after the write, and the path is returned.
\* When open() or a write raises, "warning" is emitted and the only event,
\* None is returned and no complete file is left.  The returns are those of
\* calls in which the progress callback did not raise.
C14_GenerateM3u ==
    M3uDone
    => /\ input.output_files = <<>>
          => /\ output.file = NoFile /\ events = <<>>
             /\ output.ret = NoPath /\ raised = "none"
       /\ (input.output_files # <<>> /\ output.write = "ok")
          => /\ output.file.name = sanitize_filename(input.playlist_name) \o ExtM3u
             /\ Len(output.file.lines) = 1 + Len(input.output_files)
             /\ output.file.lines[1] = HeaderLine
             /\ \A k \in 1..Len(input.output_files) :
                   /\ output.file.lines[k + 1] = Basename(input.output_files[k])
                   /\ "/" \notin {output.file.lines[k + 1][j] :
                                     j \in 1..Len(output.file.lines[k + 1])}
                   /\ EndsWith(input.output_files[k], output.file.lines[k + 1])
             /\ events[1].type = "m3u_created"
             /\ output.sink = "ok"
                => /\ events = <<Ev("m3u_created", "generate_m3u", 0)>>
                   /\ output.ret = output.file.name
                   /\ raised = "none"
       /\ output.write \in {"open_raises", "write_raises"}
          => /\ events = <<Ev("warning", "generate_m3u", 0)>>
             /\ output.file.lines # M3uLines(input.output_files)
             /\ output.sink = "ok" => output.ret = NoPath /\ raised = "none"

\* C14 witness: two output files in different directories and a playlist
\* name with characters that are removed; the file is written and its path
\* returned.
C14_Witness ==
    /\ M3uDone
    /\ Len(input.output_files) = 2
    /\ input.output_files[1] # Basename(input.output_files[1])
    /\ input.output_files[1] # input.output_files[2]
    /\ input.playlist_name # sanitize_filename(input.playlist_name)
    /\ output.ret = output.file.name
    /\ Len(output.file.lines) = 3
    /\ progress_callback

\* The events of type `type` that carry the index of track k
TrackEvents(k, type) == {m \in 1..Len(events) : events[m].index = k /\ events[m].type = type}

\* C15 (as claimed): an exception of the download step yields Cancelled,
\* without "track_failed", exactly when it is the signal that progress_hook
\* raises because the flag is set; an exception that the download capability
\* raises itself yields Error with one "track_failed", whatever its message;
\* neither leaves download_track.
C15_CancelledOnlyBySignal ==
    /\ raised # "download"
    /\ \A k \in 1..Len(log) :
          /\ log[k].cause = "flag_in_progress_hook"
             => log[k].outcome = "cancelled" /\ TrackEvents(k, "track_failed") = {}
          /\ log[k].cause = "download_raised"
             => log[k].outcome = "error" /\ Cardinality(TrackEvents(k, "track_failed")) = 1

\* C16: download_track reads the flag on entry, after the search and in
\* every progress_hook call.  Set on entry: download_track returns to the
\* loop with no event and no call of the search or the download.  Set when
\* the search has returned: it returns with no further event and the
\* download is not called.  Set when progress_hook is called: the transfer
\* ends there, the track is Cancelled and has no path, and nothing is
\* emitted.
C16_Checkpoints ==
    [][/\ (pc = "dt_entry" /\ cancel_requested /\ pc' # pc)
          => /\ pc' = "loop" /\ i' = i + 1
             /\ events' = events
             /\ calls' = calls
             /\ calls[i + 1].search = 0 /\ calls[i + 1].download = 0
       /\ (pc = "dt_cancel_check" /\ cancel_requested /\ pc' # pc)
          => /\ pc' = "loop" /\ i' = i + 1
             /\ events' = events
             /\ calls' = calls
             /\ calls[i + 1].download = 0
       /\ (pc = "dt_download" /\ cancel_requested /\ hooks' # hooks)
          => /\ pc' = "loop" /\ i' = i + 1
             /\ events' = events
             /\ log'[Len(log')].outcome = "cancelled"
             /\ log'[Len(log')].path = NoPath]_vars

\* C16 witness: the flag was set while the first track was searched; the
\* search had been called, the download was not, the track has no terminal
\* event, and the run returned.
C16_Witness ==
    /\ Returned /\ N = 2 /\ Len(log) = 1
    /\ log[1].cause = "flag_after_search"
    /\ calls[1].search = 1 /\ calls[1].download = 0
    /\ TrackEvents(1, "track_start") # {}
    /\ TrackEvents(1, "track_progress") = {}
    /\ TrackEvents(1, "track_failed") = {}

\* The terminal events of track k
TerminalEvents(k) == TrackEvents(k, "track_complete") \cup TrackEvents(k, "track_failed")

\* C17 (as claimed): a track whose download call returned without a file on
\* disk has the outcome Error and a "track_failed" event; and every track
\* that has a "track_start" and is not cancelled has exactly one terminal
\* event, "track_complete" or "track_failed", after its "track_start" and
\* before the "track_start" of the next track.
C17_OneTerminalEvent ==
    \A k \in 1..Len(log) :
        /\ log[k].cause = "file_not_found"
           => log[k].outcome = "error" /\ TrackEvents(k, "track_failed") # {}
        /\ (TrackEvents(k, "track_start") # {} /\ log[k].outcome # "cancelled")
           => /\ Cardinality(TerminalEvents(k)) = 1
              /\ \A m \in TerminalEvents(k) :
                    /\ \A n \in TrackEvents(k, "track_start") : n < m
                    /\ \A n \in TrackEvents(k + 1, "track_start") : m < n

\* The tracks whose downloaded file was identified on disk: their metadata
\* was attached, or selecting the thumbnail raised
FileIdentified == {k \in 1..Len(log) : log[k].cause \in {"ok", "thumbnail_raised"}}

\* C18 (as claimed): a track whose downloaded file was identified on disk
\* has the outcome Success whatever happens while the metadata is attached:
\* its path is returned, "track_complete" is emitted and "track_failed" is
\* not, and it is counted in downloaded.
C18_TaggingKeepsSuccess ==
    /\ \A k \in FileIdentified :
          /\ log[k].outcome = "success" /\ log[k].path # NoPath
          /\ TrackEvents(k, "track_complete") # {}
          /\ TrackEvents(k, "track_failed") = {}
    /\ result.downloaded >= Cardinality(FileIdentified)

\* C19 (as claimed): a cancel request made after download_playlist was
\* called and before its loop has checked the last track is never lost: the
\* run that returns was stopped by the cancellation check of the loop and
\* has emitted the loop's "cancelled" event.
C19_CancelNeverLost ==
    (cancel_in_run /\ Returned /\ N >= 1)
    => /\ loop_cancelled # -1
       /\ \E m \in 1..Len(events) :
             events[m].type = "cancelled" /\ events[m].by = "download_playlist"

\* The tracks among the first k the loop has finished for which
\* download_track did not return a path, as failed_tracks lists them
RECURSIVE NonSuccess(_)
NonSuccess(k) ==
    IF k = 0 THEN <<>>
    ELSE IF log[k].outcome \in {"success", "skipped"} THEN NonSuccess(k - 1)
    ELSE Append(NonSuccess(k - 1), [track |-> tracks[k].track_name,
                                    artist |-> tracks[k].artist_name])

Skipped == Cardinality({k \in 1..Len(log) : log[k].outcome = "skipped"})

\* C20: in every state of download_playlist, downloaded is the length of
\* output_files, failed is the length of failed_tracks, downloaded + failed
\* + the tracks skipped so far is the number of tracks the loop has finished,
\* which is at most total; failed_tracks lists, in CSV order, the tracks for
\* which download_track returned no path; and a run that returns without
\* having been stopped by the cancellation check has downloaded + failed +
\* skipped = total.
C20_Accounting ==
    /\ result.downloaded = Len(result.output_files)
    /\ result.failed = Len(result.failed_tracks)
    /\ result.downloaded + result.failed + Skipped = i
    /\ Len(log) = i
    /\ i <= result.total
    /\ result.failed_tracks = NonSuccess(Len(log))
    /\ (Returned /\ loop_cancelled = -1)
       => result.downloaded + result.failed + Skipped = result.total

\* C20 witness: a returned run over two different tracks, not cancelled, in
\* which the first track failed in the download and the second was not
\* found: both are in failed_tracks, in this order.
C20_Witness ==
    /\ Returned /\ loop_cancelled = -1 /\ N = 2 /\ Len(log) = 2
    /\ tracks[1].track_name # tracks[2].track_name
    /\ log[1].outcome = "error" /\ log[2].outcome = "notfound"
    /\ result.failed = 2 /\ result.downloaded = 0 /\ result.total = 2
    /\ result.failed_tracks[1].track = tracks[1].track_name
    /\ result.failed_tracks[2].track = tracks[2].track_name

\* C21: a cancellation affects only the operation during which it was
\* requested.  Every call of download_single_track that follows a call
\* cancelled through the flag, with no cancel_download since that call
\* returned, finds the flag clear at each of its checks and calls the search
\* (unless the subscriber raised on "track_start", before the search).
C21_CancelAffectsOneOperation ==
    \A k \in 2..Len(log) :
        (log[k - 1].cause \in FlagCauses /\ ~log[k].cancel_since)
            => /\ log[k].cause \notin FlagCauses
               /\ (log[k].cause # "subscriber_raised_on_start" => calls[k].search = 1)

\* C22: for every input string, the result of sanitize_filename contains
\* none of the characters < > : " / \ | ? *, has no leading or trailing dot
\* or space, and is no longer than the limit; hence sanitizing the result
\* again gives the result.
C22_SanitizeFilename ==
    output.fn = "sanitize_filename" =>
        LET r == output.result
        IN /\ \A k \in 1..Len(r) : r[k] \notin InvalidChars
           /\ r # <<>> => (r[1] \notin {".", " "} /\ r[Len(r)] \notin {".", " "})
           /\ Len(r) <= NameBound
           /\ sanitize_within(r, NameBound) = r

====
